---- MODULE Spec2Model ----
(***************************************************************************)
(* Model of the version-upgrade resolution engine of vscode-npmx:          *)
(*   - parseSemverTuple / compare / getUpgradeOptions  (src/src/state.ts)  *)
(*   - getPackageInfo, the memoized registry lookup                        *)
(*                                          (src/src/utils/api/package.ts) *)
(*   - UpgradeGutterProvider and VersionCodeLensProvider, the callers of   *)
(*     both            (src/unnamed/part_000, src/unnamed/part_001)        *)
(*                                                                         *)
(* A JavaScript string is modelled as a sequence of one-character strings, *)
(* so that the regular expression, String.includes and === act on the      *)
(* characters and not on an abstraction of them.                           *)
(***************************************************************************)
EXTENDS Integers, Sequences, FiniteSets, TLC

VARIABLES
    \* ---- one call of getUpgradeOptions ----
    pc,          \* "call": arguments chosen, "done": the call has returned
    current,     \* argument current
    allVersions, \* argument allVersions (a JavaScript array)
    latestTag,   \* argument latestTag
    result,      \* the returned VersionUpgradeOptions
    \* ---- getPackageInfo, the memoized registry lookup ----
    cache,       \* the memoize map: package name -> entry
    handles,     \* the promises of the started fetches, in the order started
    seen,        \* per caller: what its latest getPackageInfo call returned
    lastRaw,     \* the latest packument the registry answered with
    \* ---- calls of compare ----
    cmpArgs,     \* three version strings a, b, c
    cmpOut,      \* compare(a, b), compare(b, a), compare(b, c), compare(a, c)
    \* ---- one dependency in the loop of a provider ----
    depIn,       \* what parseVersion and getPackageInfo return for the dependency
    depOut,      \* what the loop body did for it
    \* ---- the providers and their debounced refreshes ----
    docs,           \* per editor: its document (does it parse, its dependencies)
    waiters,        \* per name: the finally callbacks on the pending promise
    pendingRefresh, \* UpgradeGutterProvider.pendingRefresh
    updateTimer,    \* the debounce timer of update: the editor of the last call
    refreshTimer,   \* the debounce timer of scheduleRefresh is armed
    decorated,      \* per editor: the dependencies _update had a value for
    lenses,         \* per editor: the lenses provideCodeLenses returned
    owed,           \* per editor: a lookup _update saw pending has settled since
    lensNote        \* the onDidChangeCodeLenses event owed to pending lenses

classifyVars == <<pc, current, allVersions, latestTag, result>>
cacheVars == <<cache, handles, seen, lastRaw>>
compareVars == <<cmpArgs, cmpOut>>
depVars == <<depIn, depOut>>
uiVars == <<docs, waiters, pendingRefresh, updateTimer, refreshTimer, decorated, lenses,
            owed, lensNote>>
vars == <<pc, current, allVersions, latestTag, result, cache, handles, seen, lastRaw,
          cmpArgs, cmpOut, depIn, depOut, docs, waiters, pendingRefresh, updateTimer,
          refreshTimer, decorated, lenses, owed, lensNote>>

(***************************************************************************)
(* Bounds of the model.                                                    *)
(***************************************************************************)
\* longest allVersions array
MaxLen == 2

\* registry fetches started in one run
MaxFetch == 3

(***************************************************************************)
(* Strings.                                                                *)
(***************************************************************************)
Digits == {"0", "1", "2", "3", "4", "5", "6", "7", "8", "9"}

\* Number("7") for one decimal digit
DigitValue(d) ==
    CASE d = "0" -> 0 [] d = "1" -> 1 [] d = "2" -> 2 [] d = "3" -> 3
      [] d = "4" -> 4 [] d = "5" -> 5 [] d = "6" -> 6 [] d = "7" -> 7
      [] d = "8" -> 8 [] d = "9" -> 9

\* String.prototype.includes for a one-character needle
Includes(s, ch) == \E i \in 1..Len(s) : s[i] = ch

\* the value of an optional field or variable that was never assigned;
\* it is not a string (the empty string is <<>>)
Undefined == <<"undefined">>

\* JavaScript truthiness of a string | undefined
Truthy(s) == s # Undefined /\ s # <<>>

\* the null returned by a failed match; a SemverTuple has three elements
Null == <<>>

(***************************************************************************)
(* parseSemverTuple: version.match(/^(\d+)\.(\d+)\.(\d+)/)                  *)
(***************************************************************************)
\* index of the last character of the greedy digit run \d+ that starts at
\* position i, or i - 1 when there is no digit at i
RECURSIVE DigitRunEnd(_, _)
DigitRunEnd(s, i) ==
    IF i <= Len(s) /\ s[i] \in Digits THEN DigitRunEnd(s, i + 1) ELSE i - 1

\* Number() of the decimal digits s[i..j]
RECURSIVE NumberOf(_, _, _)
NumberOf(s, i, j) ==
    IF j < i THEN 0 ELSE 10 * NumberOf(s, i, j - 1) + DigitValue(s[j])

parseSemverTuple(version) ==
    LET e1 == DigitRunEnd(version, 1)
        e2 == DigitRunEnd(version, e1 + 2)
        e3 == DigitRunEnd(version, e2 + 2)
    IN  IF /\ e1 >= 1
           /\ e1 + 1 <= Len(version) /\ version[e1 + 1] = "."
           /\ e2 >= e1 + 2
           /\ e2 + 1 <= Len(version) /\ version[e2 + 1] = "."
           /\ e3 >= e2 + 2
        THEN <<NumberOf(version, 1, e1),
               NumberOf(version, e1 + 2, e2),
               NumberOf(version, e2 + 2, e3)>>
        ELSE Null

(***************************************************************************)
(* compare: the difference of the first differing tuple component.         *)
(***************************************************************************)
\* compare with its operands exchanged
compare_Swapped(v1, v2) ==
    LET t1 == parseSemverTuple(v1)
        t2 == parseSemverTuple(v2)
    IN  IF t1[1] # t2[1] THEN t2[1] - t1[1]
        ELSE IF t1[2] # t2[2] THEN t2[2] - t1[2]
        ELSE t2[3] - t1[3]

\* compare that looks at the minor component before the major one
compare_MinorFirst(v1, v2) ==
    LET t1 == parseSemverTuple(v1)
        t2 == parseSemverTuple(v2)
    IN  IF t1[2] # t2[2] THEN t1[2] - t2[2]
        ELSE IF t1[1] # t2[1] THEN t1[1] - t2[1]
        ELSE t1[3] - t2[3]

\* compare that returns only the sign of the difference
compare_SignOnly(v1, v2) ==
    LET t1 == parseSemverTuple(v1)
        t2 == parseSemverTuple(v2)
        d == IF t1[1] # t2[1] THEN t1[1] - t2[1]
             ELSE IF t1[2] # t2[2] THEN t1[2] - t2[2]
             ELSE t1[3] - t2[3]
    IN  IF d > 0 THEN 1 ELSE IF d < 0 THEN -1 ELSE 0

compare(v1, v2) ==
    LET t1 == parseSemverTuple(v1)
        t2 == parseSemverTuple(v2)
    IN  IF t1[1] # t2[1] THEN t1[1] - t2[1]
        ELSE IF t1[2] # t2[2] THEN t1[2] - t2[2]
        ELSE t1[3] - t2[3]

(***************************************************************************)
(* getUpgradeOptions.                                                      *)
(***************************************************************************)
\* let maxPatch, maxMinor, maxMajor: string | undefined
NoMax == [maxPatch |-> Undefined, maxMinor |-> Undefined, maxMajor |-> Undefined]

\* ScanStep with compare(...) >= 0 in place of compare(...) > 0
ScanStep_LastWins(m, ver, currentTuple) ==
    LET tuple == parseSemverTuple(ver) IN
    IF tuple = Null THEN m
    ELSE IF Includes(ver, "-") THEN m
    ELSE
      LET p == IF /\ tuple[1] = currentTuple[1] /\ tuple[2] = currentTuple[2]
                  /\ tuple[3] > currentTuple[3]
                  /\ (~Truthy(m.maxPatch) \/ compare(ver, m.maxPatch) >= 0)
               THEN ver ELSE m.maxPatch
          n == IF /\ tuple[1] = currentTuple[1] /\ tuple[2] > currentTuple[2]
                  /\ (~Truthy(m.maxMinor) \/ compare(ver, m.maxMinor) >= 0)
               THEN ver ELSE m.maxMinor
          j == IF /\ tuple[1] > currentTuple[1]
                  /\ (~Truthy(m.maxMajor) \/ compare(ver, m.maxMajor) >= 0)
               THEN ver ELSE m.maxMajor
      IN  [maxPatch |-> p, maxMinor |-> n, maxMajor |-> j]

\* one iteration of `for (const ver of allVersions)`
ScanStep(m, ver, currentTuple) ==
    LET tuple == parseSemverTuple(ver) IN
    IF tuple = Null THEN m
    ELSE IF Includes(ver, "-") THEN m
    ELSE
      LET curMajor == currentTuple[1]
          curMinor == currentTuple[2]
          curPatch == currentTuple[3]
          vMajor == tuple[1]
          vMinor == tuple[2]
          vPatch == tuple[3]
          p == IF /\ vMajor = curMajor /\ vMinor = curMinor /\ vPatch > curPatch
                  /\ (~Truthy(m.maxPatch) \/ compare(ver, m.maxPatch) > 0)
               THEN ver ELSE m.maxPatch
          n == IF /\ vMajor = curMajor /\ vMinor > curMinor
                  /\ (~Truthy(m.maxMinor) \/ compare(ver, m.maxMinor) > 0)
               THEN ver ELSE m.maxMinor
          j == IF /\ vMajor > curMajor
                  /\ (~Truthy(m.maxMajor) \/ compare(ver, m.maxMajor) > 0)
               THEN ver ELSE m.maxMajor
      IN  [maxPatch |-> p, maxMinor |-> n, maxMajor |-> j]

\* the whole loop over the first k elements of versions
RECURSIVE ScanVersions(_, _, _)
ScanVersions(versions, k, currentTuple) ==
    IF k = 0 THEN NoMax
    ELSE ScanStep(ScanVersions(versions, k - 1, currentTuple), versions[k], currentTuple)

\* { latest: latestTag }
OnlyLatest(tag) ==
    [latest |-> tag, patch |-> Undefined, minor |-> Undefined,
     major |-> Undefined, prerelease |-> Undefined]

\* PopulateTiers without the test latestTag !== current
PopulateTiers_NoCurrentTest(res, m, cur, tag) ==
    [res EXCEPT
       !.patch = IF Truthy(m.maxPatch) /\ m.maxPatch # tag THEN m.maxPatch ELSE @,
       !.minor = IF Truthy(m.maxMinor) /\ m.maxMinor # tag THEN m.maxMinor ELSE @,
       !.major = IF Truthy(m.maxMajor) /\ m.maxMajor # tag THEN m.maxMajor ELSE @]

\* PopulateTiers without the tests maxX !== latestTag
PopulateTiers_NoLatestTest(res, m, cur, tag) ==
    IF tag # cur
    THEN [res EXCEPT
            !.patch = IF Truthy(m.maxPatch) THEN m.maxPatch ELSE @,
            !.minor = IF Truthy(m.maxMinor) THEN m.maxMinor ELSE @,
            !.major = IF Truthy(m.maxMajor) THEN m.maxMajor ELSE @]
    ELSE res

\* if (latestTag !== current) { ... result.patch / minor / major ... }
PopulateTiers(res, m, cur, tag) ==
    IF tag # cur
    THEN [res EXCEPT
            !.patch = IF Truthy(m.maxPatch) /\ m.maxPatch # tag THEN m.maxPatch ELSE @,
            !.minor = IF Truthy(m.maxMinor) /\ m.maxMinor # tag THEN m.maxMinor ELSE @,
            !.major = IF Truthy(m.maxMajor) /\ m.maxMajor # tag THEN m.maxMajor ELSE @]
    ELSE res

\* PopulatePrerelease without the test !current.includes('-')
PopulatePrerelease_IgnoresCurrent(res, cur, tag) ==
    IF Includes(tag, "-")
    THEN [res EXCEPT !.prerelease = tag]
    ELSE res

\* if (latestTag.includes('-') && !current.includes('-')) result.prerelease = latestTag
PopulatePrerelease(res, cur, tag) ==
    IF Includes(tag, "-") /\ ~Includes(cur, "-")
    THEN [res EXCEPT !.prerelease = tag]
    ELSE res

\* getUpgradeOptions with the prerelease field set before the early return
getUpgradeOptions_LateReturn(cur, versions, tag) ==
    LET currentTuple == parseSemverTuple(cur) IN
    IF currentTuple = Null THEN PopulatePrerelease(OnlyLatest(tag), cur, tag)
    ELSE PopulatePrerelease(
           PopulateTiers(OnlyLatest(tag),
                         ScanVersions(versions, Len(versions), currentTuple),
                         cur, tag),
           cur, tag)

\* getUpgradeOptions with latest taken from the scanned versions
getUpgradeOptions_LatestFromScan(cur, versions, tag) ==
    LET currentTuple == parseSemverTuple(cur) IN
    IF currentTuple = Null THEN OnlyLatest(tag)
    ELSE LET m == ScanVersions(versions, Len(versions), currentTuple)
             top == IF Truthy(m.maxMajor) THEN m.maxMajor ELSE tag
         IN  PopulatePrerelease(PopulateTiers(OnlyLatest(top), m, cur, tag), cur, tag)

getUpgradeOptions(cur, versions, tag) ==
    LET currentTuple == parseSemverTuple(cur) IN
    IF currentTuple = Null THEN OnlyLatest(tag)
    ELSE PopulatePrerelease(
           PopulateTiers(OnlyLatest(tag),
                         ScanVersions(versions, Len(versions), currentTuple),
                         cur, tag),
           cur, tag)

(***************************************************************************)
(* The inputs of getUpgradeOptions.                                        *)
(***************************************************************************)
\* Version strings are built from these components: two majors, two minors
\* and three patches, so that every tier has candidates and the patch tier
\* has candidates with different tuples.
MajorComponents == {"0", "1"}
MinorComponents == {"0", "1"}
PatchComponents == {"0", "1", "2"}

PrereleaseSuffix == <<"-", "a">>
BuildSuffix == <<"+", "b">>

Ver(M, N, P, suffix) == <<M, ".", N, ".", P>> \o suffix

\* "0.0.0" ... "1.1.2"
StableStrings ==
    {Ver(M, N, P, <<>>) : M \in MajorComponents, N \in MinorComponents,
                          P \in PatchComponents}

\* "0.0.2+b" ... "1.1.2+b": the same tuple as a stable string, another string
BuildStrings ==
    {Ver(M, N, "2", BuildSuffix) : M \in MajorComponents, N \in MinorComponents}

\* "0.0.1-a", "1.0.0-a"
PrereleaseStrings ==
    {Ver("0", "0", "1", PrereleaseSuffix), Ver("1", "0", "0", PrereleaseSuffix)}

\* strings that /^(\d+)\.(\d+)\.(\d+)/ does not match
NonSemverStrings == {<<"v", "1", ".", "0", ".", "0">>}

VersionStrings ==
    StableStrings \cup BuildStrings \cup PrereleaseStrings \cup NonSemverStrings

\* the values of current: every tuple below the largest patch, a prerelease,
\* a build variant and a string without a tuple
CurrentStrings ==
    {Ver(M, N, P, <<>>) : M \in MajorComponents, N \in MinorComponents, P \in {"0", "1"}}
      \cup {Ver("0", "0", "0", PrereleaseSuffix), Ver("0", "0", "0", BuildSuffix)}
      \cup NonSemverStrings

\* latestTag is an element of allVersions, or current, or one of these
\* strings (getUpgradeOptions only tests latestTag for equality and for '-')
OtherTags ==
    {Ver("1", "1", "1", <<>>), Ver("0", "1", "0", PrereleaseSuffix)} \cup NonSemverStrings

Range(s) == {s[i] : i \in 1..Len(s)}

SeqsUpTo(S, n) == UNION {[1..k -> S] : k \in 0..n}

(***************************************************************************)
(* getPackageInfo = memoize(async (name) => { ... }).                       *)
(***************************************************************************)
Names == {"pkg-a", "pkg-b"}
Callers == {"gutter", "lens"}

V1 == Ver("1", "0", "0", <<>>)
V2 == Ver("1", "0", "1", <<>>)
PkgVersions == {V1, V2}

TagLatest == <<"l", "a", "t", "e", "s", "t">>
TagNext == <<"n", "e", "x", "t">>
TagNames == {TagLatest, TagNext}

\* pkg.versions[v] of the registry document: V1 was published with
\* provenance, V2 is deprecated
RegistryVersion(v) ==
    [version |-> v,
     attestations |-> (v = V1),
     deprecated |-> IF v = V2 THEN <<"o", "l", "d">> ELSE Undefined]

\* pkg['dist-tags'] as the list of its entries, in insertion order; the keys
\* of an object are distinct
DistTagLists ==
    {<<>>}
      \cup {<<<<t, v>>>> : t \in TagNames, v \in PkgVersions}
      \cup {dt \in {<<<<t1, v1>>, <<t2, v2>>>> :
                       t1 \in TagNames, t2 \in TagNames,
                       v1 \in PkgVersions, v2 \in PkgVersions} : dt[1][1] # dt[2][1]}

\* the registry documents: both versions listed, a publish time recorded for
\* both or for V1 only
RawPackuments ==
    {[versions |-> [v \in PkgVersions |-> RegistryVersion(v)], time |-> ts, distTags |-> dt] :
        ts \in {PkgVersions, {V1}}, dt \in DistTagLists}

\* ResolvedVersions without .filter((v) => pkg.time[v])
ResolvedVersions_NoFilter(pkg) ==
    [v \in DOMAIN pkg.versions |->
        [version |-> v,
         tag |-> Undefined,
         hasProvenance |-> pkg.versions[v].attestations,
         deprecated |-> pkg.versions[v].deprecated]]

\* Object.fromEntries(Object.keys(pkg.versions).filter(v => pkg.time[v]).map(...))
ResolvedVersions(pkg) ==
    [v \in {k \in DOMAIN pkg.versions : k \in pkg.time} |->
        [version |-> v,
         tag |-> Undefined,
         hasProvenance |-> pkg.versions[v].attestations,
         deprecated |-> pkg.versions[v].deprecated]]

\* the result of an async body: a value or a thrown error
Returned(v) == [threw |-> FALSE, versions |-> v]
Threw == [threw |-> TRUE, versions |-> <<>>]

\* Object.entries(pkg['dist-tags']).forEach(([tag, version]) => {
\*   resolvedVersions[version].tag = tag }) over the first k entries;
\* assigning .tag on undefined throws a TypeError
RECURSIVE AttachTags(_, _, _)
AttachTags(resolved, distTags, k) ==
    IF k = 0 THEN Returned(resolved)
    ELSE LET before == AttachTags(resolved, distTags, k - 1)
             tag == distTags[k][1]
             version == distTags[k][2]
         IN  IF before.threw THEN before
             ELSE IF version \notin DOMAIN before.versions THEN Threw
             ELSE Returned([before.versions EXCEPT ![version].tag = tag])

\* the body of getPackageInfo after `await ofetch(...)` answered pkg
NormalizePackument(pkg) ==
    AttachTags(ResolvedVersions(pkg), pkg.distTags, Len(pkg.distTags))

\* ---- memoize ----
NoValue == <<>>
EmptyEntry == [kind |-> "none", handle |-> 0, value |-> NoValue]

\* MemoizeLookup that does not look for a pending promise
MemoizeLookup_NoPending(entry) ==
    CASE entry.kind = "resolved" -> "value"
      [] OTHER -> "miss"

\* what a call finds under its key: a resolved value, a pending promise, nothing
MemoizeLookup(entry) ==
    CASE entry.kind = "resolved" -> "value"
      [] entry.kind = "pending" -> "pending"
      [] OTHER -> "miss"

\* MemoizeOnFulfilled that drops the entry instead of storing the value
MemoizeOnFulfilled_NotStored(entry, value) == EmptyEntry

\* the entry once the promise has fulfilled with value
MemoizeOnFulfilled(entry, value) == [kind |-> "resolved", handle |-> 0, value |-> value]

\* MemoizeOnRejected that keeps the rejected promise under the key
MemoizeOnRejected_Kept(entry) == entry

\* the entry once the promise has rejected
MemoizeOnRejected(entry) == EmptyEntry

\* ---- callers ----
NothingSeen == [name |-> "", handle |-> 0, state |-> "nothing", value |-> NoValue]

PendingHandles(n) ==
    {h \in 1..Len(handles) : handles[h].name = n /\ handles[h].state = "pending"}

\* the consumers of promise h learn how it settled
Settle(h, state, value) ==
    [c \in Callers |->
        IF seen[c].handle = h /\ seen[c].state = "pending"
        THEN [seen[c] EXCEPT !.state = state, !.value = value]
        ELSE seen[c]]

\* caller c calls getPackageInfo(n)
Get(c, n) ==
    LET found == MemoizeLookup(cache[n]) IN
    /\ CASE found = "value" ->
              /\ seen' = [seen EXCEPT ![c] =
                            [name |-> n, handle |-> 0, state |-> "value",
                             value |-> cache[n].value]]
              /\ UNCHANGED <<cache, handles>>
         [] found = "pending" ->
              /\ seen' = [seen EXCEPT ![c] =
                            [name |-> n, handle |-> cache[n].handle, state |-> "pending",
                             value |-> NoValue]]
              /\ UNCHANGED <<cache, handles>>
         [] found = "miss" ->
              /\ Len(handles) < MaxFetch
              /\ handles' = Append(handles, [name |-> n, state |-> "pending"])
              /\ cache' = [cache EXCEPT ![n] =
                             [kind |-> "pending", handle |-> Len(handles) + 1,
                              value |-> NoValue]]
              /\ seen' = [seen EXCEPT ![c] =
                            [name |-> n, handle |-> Len(handles) + 1, state |-> "pending",
                             value |-> NoValue]]
    /\ UNCHANGED lastRaw
    /\ UNCHANGED classifyVars
    /\ UNCHANGED compareVars
    /\ UNCHANGED depVars
    /\ UNCHANGED uiVars

\* the promise h fulfils or rejects with the outcome of the async body
Finish(h, outcome) ==
    LET n == handles[h].name IN
    IF outcome.threw
    THEN /\ handles' = [handles EXCEPT ![h].state = "rejected"]
         /\ cache' = [cache EXCEPT ![n] = MemoizeOnRejected(@)]
         /\ seen' = Settle(h, "rejected", NoValue)
    ELSE /\ handles' = [handles EXCEPT ![h].state = "fulfilled"]
         /\ cache' = [cache EXCEPT ![n] = MemoizeOnFulfilled(@, outcome.versions)]
         /\ seen' = Settle(h, "fulfilled", outcome.versions)

\* ofetch answers for fetch h with the registry document pkg; the rest of
\* the async body runs
FetchAnswered(h, pkg) ==
    /\ h \in 1..Len(handles) /\ handles[h].state = "pending"
    /\ lastRaw' = [name |-> handles[h].name, fetched |-> TRUE, pkg |-> pkg]
    /\ Finish(h, NormalizePackument(pkg))
    /\ UNCHANGED classifyVars
    /\ UNCHANGED compareVars
    /\ UNCHANGED depVars
    /\ UNCHANGED uiVars

\* ofetch rejects for fetch h (network error, 404)
FetchFailed(h) ==
    /\ h \in 1..Len(handles) /\ handles[h].state = "pending"
    /\ Finish(h, Threw)
    /\ UNCHANGED lastRaw
    /\ UNCHANGED classifyVars
    /\ UNCHANGED compareVars
    /\ UNCHANGED depVars
    /\ UNCHANGED uiVars

NoRaw == [name |-> "", fetched |-> FALSE, pkg |-> <<>>]

NoResult == OnlyLatest(Undefined)

\* no call of getUpgradeOptions in this run
ClassifyIdle ==
    /\ pc = "done"
    /\ current = <<>>
    /\ allVersions = <<>>
    /\ latestTag = <<>>
    /\ result = NoResult

\* no call of getPackageInfo yet
CacheEmpty ==
    /\ cache = [n \in Names |-> EmptyEntry]
    /\ handles = <<>>
    /\ seen = [c \in Callers |-> NothingSeen]
    /\ lastRaw = NoRaw

NoCompare == [done |-> FALSE, ab |-> 0, ba |-> 0, bc |-> 0, ac |-> 0]

\* no call of compare in this run
CompareIdle ==
    /\ cmpArgs = <<>>
    /\ cmpOut = NoCompare

\* a failed parseVersion: `!parsed` holds
NullSpecifier == [protocol |-> "null", semver |-> Null]

NoPackage == [kind |-> "none", latest |-> Undefined, versions |-> <<>>]

NoDepOut ==
    [done |-> FALSE, by |-> "", lookedUp |-> FALSE, registered |-> FALSE,
     classified |-> FALSE, options |-> NoResult, items |-> <<>>, lenses |-> <<>>]

\* no provider runs in this run
DepIdle ==
    /\ depIn = [parsed |-> NullSpecifier, pkg |-> NoPackage]
    /\ depOut = NoDepOut

Editors == {"E1", "E2"}

\* extractor.parse(document) returned nothing
NoRoot == [root |-> FALSE, deps |-> {}]

NoLenses == [pending |-> {}, value |-> {}]

NoLensNote == [owed |-> FALSE, fired |-> FALSE, outcome |-> ""]

UiQuiet ==
    /\ waiters = [n \in Names |-> <<>>]
    /\ pendingRefresh = FALSE
    /\ refreshTimer = FALSE
    /\ decorated = [e \in Editors |-> {}]
    /\ lenses = [e \in Editors |-> NoLenses]
    /\ owed = [e \in Editors |-> FALSE]
    /\ lensNote = NoLensNote

\* no provider exists in this run
UiIdle ==
    /\ docs = [e \in Editors |-> NoRoot]
    /\ updateTimer = ""
    /\ UiQuiet

InitClassify ==
    /\ pc = "call"
    /\ current \in CurrentStrings
    /\ allVersions \in SeqsUpTo(VersionStrings, MaxLen)
    /\ latestTag \in Range(allVersions) \cup {current} \cup OtherTags
    /\ result = NoResult
    /\ CacheEmpty
    /\ CompareIdle
    /\ DepIdle
    /\ UiIdle

Classify ==
    /\ pc = "call"
    /\ pc' = "done"
    /\ result' = getUpgradeOptions(current, allVersions, latestTag)
    /\ UNCHANGED <<current, allVersions, latestTag>>
    /\ UNCHANGED cacheVars
    /\ UNCHANGED compareVars
    /\ UNCHANGED depVars
    /\ UNCHANGED uiVars

NextClassify == Classify

SpecClassify == InitClassify /\ [][NextClassify]_vars

InitCache ==
    /\ ClassifyIdle
    /\ CacheEmpty
    /\ CompareIdle
    /\ DepIdle
    /\ UiIdle

NextCache ==
    \/ \E c \in Callers, n \in Names : Get(c, n)
    \/ \E h \in 1..MaxFetch, pkg \in RawPackuments : FetchAnswered(h, pkg)
    \/ \E h \in 1..MaxFetch : FetchFailed(h)

SpecCache == InitCache /\ [][NextCache]_vars

(***************************************************************************)
(* Calls of compare on strings that have a tuple.                          *)
(***************************************************************************)
\* "9.0.0", "9.0.0+b", "10.0.0", "1.10.0": components of more than one digit
LongStrings ==
    {<<"9", ".", "0", ".", "0">>, <<"9", ".", "0", ".", "0", "+", "b">>,
     <<"1", "0", ".", "0", ".", "0">>, <<"1", ".", "1", "0", ".", "0">>}

CompareStrings == StableStrings \cup BuildStrings \cup PrereleaseStrings \cup LongStrings

InitCompare ==
    /\ ClassifyIdle
    /\ CacheEmpty
    /\ cmpArgs \in CompareStrings \X CompareStrings \X CompareStrings
    /\ cmpOut = NoCompare
    /\ DepIdle
    /\ UiIdle

Compare ==
    /\ ~cmpOut.done
    /\ cmpOut' = [done |-> TRUE,
                  ab |-> compare(cmpArgs[1], cmpArgs[2]),
                  ba |-> compare(cmpArgs[2], cmpArgs[1]),
                  bc |-> compare(cmpArgs[2], cmpArgs[3]),
                  ac |-> compare(cmpArgs[1], cmpArgs[3])]
    /\ UNCHANGED cmpArgs
    /\ UNCHANGED classifyVars
    /\ UNCHANGED cacheVars
    /\ UNCHANGED depVars
    /\ UNCHANGED uiVars

NextCompare == Compare

SpecCompare == InitCompare /\ [][NextCompare]_vars

(***************************************************************************)
(* One dependency in `for (const dep of deps)` of UpgradeGutterProvider.   *)
(* _update and of VersionCodeLensProvider.provideCodeLenses.               *)
(***************************************************************************)
\* upgradeOrder with the tiers before latest
upgradeOrder_LatestLast == <<"major", "minor", "patch", "prerelease", "latest">>

upgradeOrder == <<"latest", "major", "minor", "patch", "prerelease">>

\* ---- #utils/version ----
Protocols == {"none", "npm", "workspace"}

SupportedProtocols == {"none", "npm"}

isSupportedProtocol(protocol) == protocol \in SupportedProtocols

ProtocolPrefix(protocol) ==
    CASE protocol = "npm" -> <<"n", "p", "m", ":">>
      [] protocol = "workspace" -> <<"w", "o", "r", "k", "s", "p", "a", "c", "e", ":">>
      [] OTHER -> <<>>

\* the prefix as parsed, followed by the semver core
formatVersion(specifier) == ProtocolPrefix(specifier.protocol) \o specifier.semver

\* "0.0.1", "1.0.0", "1.0.0-a": the semver cores parseVersion returns
DepSemvers ==
    {Ver("0", "0", "1", <<>>), Ver("1", "0", "0", <<>>), Ver("1", "0", "0", PrereleaseSuffix)}

\* the values parseVersion(dep.version) returns
ParsedSpecifiers ==
    {NullSpecifier} \cup [protocol : Protocols, semver : DepSemvers]

\* Ignored that looks at the parse only
Ignored_ParseOnly(parsed) == parsed = NullSpecifier

\* if (!parsed || !isSupportedProtocol(parsed.protocol)) continue
Ignored(parsed) == parsed = NullSpecifier \/ ~isSupportedProtocol(parsed.protocol)

\* ---- what getPackageInfo(dep.name) returns ----
\* "0.0.1", "0.0.2", "0.0.2+b", "0.1.0", "1.0.0", "1.0.0-a", "1.1.0"
DepVersionStrings ==
    {Ver("0", "0", "1", <<>>), Ver("0", "0", "2", <<>>), Ver("0", "0", "2", BuildSuffix),
     Ver("0", "1", "0", <<>>), Ver("1", "0", "0", <<>>), Ver("1", "0", "0", PrereleaseSuffix),
     Ver("1", "1", "0", <<>>)}

\* a pending promise, or the package as the providers read it:
\* pkg?.distTags.latest and Object.keys(pkg.versionsMeta || {})
PackageLookups ==
    {[kind |-> "pending", latest |-> Undefined, versions |-> <<>>]} \cup
    {[kind |-> "value", latest |-> l, versions |-> vs] :
        vs \in SeqsUpTo(DepVersionStrings, MaxLen),
        l \in DepSemvers \cup {Undefined, Ver("0", "0", "2", <<>>)}}

\* TargetVersion that offers latest also when it is the current version
TargetVersion_LatestUnfiltered(type, parsed, upgradeOptions) ==
    CASE type = "latest" -> upgradeOptions.latest
      [] type = "major" -> upgradeOptions.major
      [] type = "minor" -> upgradeOptions.minor
      [] type = "patch" -> upgradeOptions.patch
      [] type = "prerelease" -> upgradeOptions.prerelease

\* const targetVersion = type === 'latest' ? (...) : upgradeOptions[type]
TargetVersion(type, parsed, upgradeOptions) ==
    CASE type = "latest" ->
            IF upgradeOptions.latest # parsed.semver THEN upgradeOptions.latest ELSE Undefined
      [] type = "major" -> upgradeOptions.major
      [] type = "minor" -> upgradeOptions.minor
      [] type = "patch" -> upgradeOptions.patch
      [] type = "prerelease" -> upgradeOptions.prerelease

\* for (const type of upgradeOrder) { ... if (!targetVersion) continue; push }
UpgradeItems(parsed, upgradeOptions) ==
    LET item(i) ==
          LET target == TargetVersion(upgradeOrder[i], parsed, upgradeOptions) IN
          [type |-> upgradeOrder[i],
           targetVersion |-> target,
           newVersion |-> IF Truthy(target)
                          THEN formatVersion([parsed EXCEPT !.semver = target])
                          ELSE Undefined]
    IN  SelectSeq([i \in 1..Len(upgradeOrder) |-> item(i)],
                  LAMBDA it : Truthy(it.targetVersion))

UpgradeLens(item) ==
    [kind |-> "upgrade", upgradeType |-> item.type, targetVersion |-> item.targetVersion,
     newVersion |-> item.newVersion]

PlainLens(kind) ==
    [kind |-> kind, upgradeType |-> "", targetVersion |-> Undefined, newVersion |-> Undefined]

\* the loop body up to the items, the same in both providers
Dependency(by, parsed, pkg) ==
    IF Ignored(parsed)
    THEN [NoDepOut EXCEPT !.done = TRUE, !.by = by]
    ELSE IF pkg.kind = "pending"
    THEN [NoDepOut EXCEPT !.done = TRUE, !.by = by, !.lookedUp = TRUE, !.registered = TRUE]
    ELSE IF ~Truthy(pkg.latest)
    THEN [NoDepOut EXCEPT !.done = TRUE, !.by = by, !.lookedUp = TRUE]
    ELSE LET upgradeOptions == getUpgradeOptions(parsed.semver, pkg.versions, pkg.latest) IN
         [NoDepOut EXCEPT !.done = TRUE, !.by = by, !.lookedUp = TRUE,
                          !.classified = TRUE, !.options = upgradeOptions,
                          !.items = UpgradeItems(parsed, upgradeOptions)]

\* one iteration of the loop of UpgradeGutterProvider._update; the
\* decorations are made of items, the inline one of items[0]
GutterDependency ==
    /\ ~depOut.done
    /\ depOut' = Dependency("gutter", depIn.parsed, depIn.pkg)
    /\ UNCHANGED depIn
    /\ UNCHANGED classifyVars
    /\ UNCHANGED cacheVars
    /\ UNCHANGED compareVars
    /\ UNCHANGED uiVars

\* one iteration of the loop of VersionCodeLensProvider.provideCodeLenses
LensDependency ==
    /\ ~depOut.done
    /\ LET out == Dependency("lens", depIn.parsed, depIn.pkg) IN
       depOut' = [out EXCEPT !.lenses =
                     IF out.registered THEN <<PlainLens("pending")>>
                     ELSE IF out.lookedUp /\ ~out.classified THEN <<PlainLens("unknown")>>
                     ELSE [i \in 1..Len(out.items) |-> UpgradeLens(out.items[i])]]
    /\ UNCHANGED depIn
    /\ UNCHANGED classifyVars
    /\ UNCHANGED cacheVars
    /\ UNCHANGED compareVars
    /\ UNCHANGED uiVars

InitDep ==
    /\ ClassifyIdle
    /\ CacheEmpty
    /\ CompareIdle
    /\ depIn \in [parsed : ParsedSpecifiers, pkg : PackageLookups]
    /\ depOut = NoDepOut
    /\ UiIdle

NextDep ==
    \/ GutterDependency
    \/ LensDependency

SpecDep == InitDep /\ [][NextDep]_vars

(***************************************************************************)
(* The providers as callers of getPackageInfo: the finally callbacks on a  *)
(* pending lookup and the two debounced refreshes.  The promise reactions  *)
(* of one settled promise run as microtasks, before any timer or editor    *)
(* event, so a settle and its callbacks are one step.                      *)
(***************************************************************************)
\* the document of an editor: whether it parses, and the names of the
\* dependencies that are not skipped by the loop
Documents == {NoRoot} \cup {[root |-> TRUE, deps |-> d] : d \in SUBSET Names}

Outcomes == {"fulfilled", "rejected"}

\* the entry of a started fetch; one promise per name is pending at a time
PendingEntry == [kind |-> "pending", handle |-> 1, value |-> NoValue]

\* the value a fetch fulfils with
SomeVersions ==
    NormalizePackument(
        CHOOSE pkg \in RawPackuments : ~NormalizePackument(pkg).threw).versions

\* pkg.finally(cb): cb joins the reactions of the promise; a callback that
\* is registered again acts as its last registration
AddWaiter(ws, cb) == Append(SelectSeq(ws, LAMBDA w : w # cb), cb)

\* the dependencies for which getPackageInfo returns a Promise
Unresolved(doc) == {n \in doc.deps : MemoizeLookup(cache[n]) # "value"}

\* getPackageInfo(dep.name) for every dependency of doc, by a caller that
\* registers cb on every Promise it gets
LookupAll(doc, cb) ==
    /\ cache' = [n \in Names |->
                    IF n \in doc.deps /\ MemoizeLookup(cache[n]) = "miss"
                    THEN PendingEntry ELSE cache[n]]
    /\ waiters' = [n \in Names |->
                    IF n \in Unresolved(doc) THEN AddWaiter(waiters[n], cb)
                    ELSE waiters[n]]
    /\ UNCHANGED <<handles, seen, lastRaw>>

\* update(editor), the debounced function: the timer restarts and keeps
\* the arguments of this call
Update(e) ==
    /\ updateTimer' = e
    /\ UNCHANGED <<docs, waiters, pendingRefresh, refreshTimer, decorated, lenses, owed,
                   lensNote>>
    /\ UNCHANGED classifyVars
    /\ UNCHANGED cacheVars
    /\ UNCHANGED compareVars
    /\ UNCHANGED depVars

\* the 200 ms have passed: _update(editor) runs
UpdateTimerFires ==
    /\ updateTimer # ""
    /\ LET e == updateTimer
           doc == docs[e]
       IN  /\ updateTimer' = ""
           /\ owed' = [owed EXCEPT ![e] = FALSE]
           /\ IF ~doc.root
              THEN /\ decorated' = [decorated EXCEPT ![e] = {}]
                   /\ UNCHANGED <<pendingRefresh, waiters>>
                   /\ UNCHANGED cacheVars
              ELSE /\ pendingRefresh' = (Unresolved(doc) # {})
                   /\ LookupAll(doc, e)
                   /\ decorated' = [decorated EXCEPT ![e] = doc.deps \ Unresolved(doc)]
    /\ UNCHANGED <<docs, refreshTimer, lenses, lensNote>>
    /\ UNCHANGED classifyVars
    /\ UNCHANGED compareVars
    /\ UNCHANGED depVars

\* the editor asks for the lenses of the document of e
ProvideCodeLenses(e) ==
    /\ LET doc == docs[e] IN
       IF ~doc.root
       THEN /\ lenses' = [lenses EXCEPT ![e] = NoLenses]
            /\ UNCHANGED waiters
            /\ UNCHANGED cacheVars
       ELSE /\ LookupAll(doc, "lens")
            /\ lenses' = [lenses EXCEPT ![e] =
                             [pending |-> Unresolved(doc),
                              value |-> doc.deps \ Unresolved(doc)]]
    /\ UNCHANGED <<docs, pendingRefresh, updateTimer, refreshTimer, decorated, owed,
                   lensNote>>
    /\ UNCHANGED classifyVars
    /\ UNCHANGED compareVars
    /\ UNCHANGED depVars

\* the 100 ms have passed: onDidChangeCodeLensesEmitter.fire()
RefreshTimerFires ==
    /\ refreshTimer
    /\ refreshTimer' = FALSE
    /\ lensNote' = [lensNote EXCEPT !.owed = FALSE, !.fired = lensNote.owed]
    /\ UNCHANGED <<docs, waiters, pendingRefresh, updateTimer, decorated, lenses, owed>>
    /\ UNCHANGED classifyVars
    /\ UNCHANGED cacheVars
    /\ UNCHANGED compareVars
    /\ UNCHANGED depVars

\* a lens callback registered with then() in place of finally()
LensCallbackRuns_OnFulfilled(outcome) == outcome = "fulfilled"

\* pkg.finally(() => this.scheduleRefresh()) runs however the promise settles
LensCallbackRuns(outcome) == outcome \in Outcomes

\* the editor of the last gutter callback in ws, "" if there is none
LastEditor(ws) ==
    LET idx == {i \in 1..Len(ws) : ws[i] \in Editors} IN
    IF idx = {} THEN "" ELSE ws[CHOOSE i \in idx : \A j \in idx : j <= i]

\* the fetch of n settles; memoize stores the value or drops the entry, and
\* the finally callbacks of the providers run in the order registered
FetchSettles(n, outcome) ==
    /\ cache[n].kind = "pending"
    /\ cache' = [cache EXCEPT ![n] =
                    IF outcome = "fulfilled" THEN MemoizeOnFulfilled(@, SomeVersions)
                    ELSE MemoizeOnRejected(@)]
    /\ waiters' = [waiters EXCEPT ![n] = <<>>]
    /\ updateTimer' = IF pendingRefresh /\ LastEditor(waiters[n]) # ""
                      THEN LastEditor(waiters[n]) ELSE updateTimer
    /\ owed' = [e \in Editors |-> owed[e] \/ \E i \in 1..Len(waiters[n]) : waiters[n][i] = e]
    /\ IF \E i \in 1..Len(waiters[n]) : waiters[n][i] = "lens"
       THEN /\ refreshTimer' = (refreshTimer \/ LensCallbackRuns(outcome))
            /\ lensNote' = [owed |-> TRUE, fired |-> FALSE, outcome |-> outcome]
       ELSE UNCHANGED <<refreshTimer, lensNote>>
    /\ UNCHANGED <<handles, seen, lastRaw>>
    /\ UNCHANGED <<docs, pendingRefresh, decorated, lenses>>
    /\ UNCHANGED classifyVars
    /\ UNCHANGED compareVars
    /\ UNCHANGED depVars

Settles == \E n \in Names, outcome \in Outcomes : FetchSettles(n, outcome)

\* ---- the lens provider on two documents ----
InitLens ==
    /\ ClassifyIdle
    /\ CacheEmpty
    /\ CompareIdle
    /\ DepIdle
    /\ docs \in [Editors -> Documents]
    /\ updateTimer = ""
    /\ UiQuiet

NextLens ==
    \/ \E e \in Editors : ProvideCodeLenses(e)
    \/ RefreshTimerFires
    \/ Settles

\* a timer that is armed fires, a started fetch settles
SpecLens ==
    InitLens /\ [][NextLens]_vars /\ WF_vars(RefreshTimerFires) /\ WF_vars(Settles)

\* ---- the gutter provider on two editors ----
InitGutter ==
    /\ ClassifyIdle
    /\ CacheEmpty
    /\ CompareIdle
    /\ DepIdle
    /\ docs \in [Editors -> Documents]
    /\ updateTimer = ""
    /\ UiQuiet

NextGutter ==
    \/ \E e \in Editors : Update(e)
    \/ UpdateTimerFires
    \/ Settles

SpecGutter ==
    InitGutter /\ [][NextGutter]_vars /\ WF_vars(UpdateTimerFires) /\ WF_vars(Settles)

\* ---- the gutter provider after one call of update, no editor event ----
InitGutterAlone ==
    /\ ClassifyIdle
    /\ CacheEmpty
    /\ CompareIdle
    /\ DepIdle
    /\ docs \in [Editors -> Documents]
    /\ updateTimer \in Editors
    /\ UiQuiet

NextGutterAlone ==
    \/ UpdateTimerFires
    \/ Settles

SpecGutterAlone ==
    InitGutterAlone /\ [][NextGutterAlone]_vars
        /\ WF_vars(UpdateTimerFires) /\ WF_vars(Settles)

(***************************************************************************)
(* Properties of getUpgradeOptions, stated on the arguments and the result *)
(* of the call, without the loop.                                          *)
(***************************************************************************)
\* the tuple of every string of the inputs, tabulated once
ParseTable ==
    [v \in VersionStrings \cup CurrentStrings \cup OtherTags |-> parseSemverTuple(v)]

TupleOf(v) == ParseTable[v]

Tiers == {"patch", "minor", "major"}

Populated(field) == field # Undefined

Field(r, T) ==
    CASE T = "patch" -> r.patch
      [] T = "minor" -> r.minor
      [] T = "major" -> r.major
      [] T = "prerelease" -> r.prerelease

HasTuple(v) == TupleOf(v) # Null

\* t < u in the lexicographic order of (major, minor, patch)
TupleLess(t, u) ==
    \/ t[1] < u[1]
    \/ t[1] = u[1] /\ t[2] < u[2]
    \/ t[1] = u[1] /\ t[2] = u[2] /\ t[3] < u[3]

\* tuple t is an upgrade of tier T from tuple c
TierPredicate(T, t, c) ==
    CASE T = "patch" -> t[1] = c[1] /\ t[2] = c[2] /\ t[3] > c[3]
      [] T = "minor" -> t[1] = c[1] /\ t[2] > c[2]
      [] T = "major" -> t[1] > c[1]

\* the positions of T's candidates in allVersions
CandidateIdx(T) ==
    LET c == TupleOf(current) IN
    {i \in 1..Len(allVersions) :
        LET t == TupleOf(allVersions[i]) IN
        t # Null /\ ~Includes(allVersions[i], "-") /\ TierPredicate(T, t, c)}

\* the positions of the candidates whose tuple no candidate exceeds
MaxIdx(T) ==
    LET C == CandidateIdx(T)
        tup == [i \in C |-> TupleOf(allVersions[i])]
    IN  {i \in C : \A j \in C : ~TupleLess(tup[i], tup[j])}

\* the tier's maximum candidate; among equal tuples the reduction keeps the
\* one it meets first
MaxCandidate(T) ==
    LET M == MaxIdx(T) IN allVersions[CHOOSE i \in M : \A j \in M : i <= j]

\* C1: with a parseable current, result.T is populated exactly when
\* allVersions has a non-prerelease candidate of tier T, latestTag differs from
\* current, and the tier's maximum candidate differs from latestTag.
C1_TierPopulatedIff ==
    (pc = "done" /\ HasTuple(current)) =>
        \A T \in Tiers :
            Populated(Field(result, T)) <=>
                /\ latestTag # current
                /\ CandidateIdx(T) # {}
                /\ MaxCandidate(T) # latestTag

\* a call where one tier is populated, another has candidates but is
\* suppressed because its maximum is latestTag
C1_Witness ==
    /\ pc = "done" /\ HasTuple(current) /\ latestTag # current
    /\ Populated(result.patch)
    /\ CandidateIdx("major") # {} /\ ~Populated(result.major)
    /\ CandidateIdx("minor") = {}

\* C2: a populated result.T is a member of allVersions without '-' that
\* satisfies T's predicate, and no such member has a strictly greater tuple.
C2_TierValueMaximal ==
    pc = "done" =>
        \A T \in Tiers :
            Populated(Field(result, T)) =>
                LET C == CandidateIdx(T)
                    t == TupleOf(Field(result, T))
                IN  /\ \E i \in C : allVersions[i] = Field(result, T)
                    /\ \A j \in C : ~TupleLess(t, TupleOf(allVersions[j]))

\* a call where the patch tier has two candidates with different tuples, the
\* smaller one last, and the minor tier has the smaller one first
C2_Witness ==
    /\ pc = "done" /\ Populated(result.patch)
    /\ \E i, j \in CandidateIdx("patch") :
          /\ i < j
          /\ TupleLess(TupleOf(allVersions[j]), TupleOf(allVersions[i]))

\* C5 as stated: every populated field other than latest is strictly
\* greater than current in its tier and distinct from result.latest.
C5_Original ==
    pc = "done" =>
        /\ \A T \in Tiers :
              Populated(Field(result, T)) =>
                  /\ TierPredicate(T, TupleOf(Field(result, T)),
                                   TupleOf(current))
                  /\ Field(result, T) # result.latest
        /\ Populated(result.prerelease) =>
              /\ TupleLess(TupleOf(current), TupleOf(result.prerelease))
              /\ result.prerelease # result.latest

\* C5 amended: patch, minor and major, when populated, are strictly greater
\* than current in their tier and distinct from result.latest; a populated
\* prerelease equals result.latest.
C5_TierFieldsGreaterAndDistinct ==
    pc = "done" =>
        /\ \A T \in Tiers :
              Populated(Field(result, T)) =>
                  /\ TierPredicate(T, TupleOf(Field(result, T)),
                                   TupleOf(current))
                  /\ Field(result, T) # result.latest
        /\ Populated(result.prerelease) => result.prerelease = result.latest

\* a call that populates a tier and a prerelease that is below current
C5_Witness ==
    /\ pc = "done"
    /\ Populated(result.minor)
    /\ Populated(result.prerelease)
    /\ TupleLess(TupleOf(result.prerelease), TupleOf(current))

\* C6: with a parseable current, result.prerelease is populated exactly when
\* latestTag contains '-' and current does not, and its value is latestTag.
C6_PrereleaseIff ==
    (pc = "done" /\ HasTuple(current)) =>
        /\ Populated(result.prerelease) <=>
              (Includes(latestTag, "-") /\ ~Includes(current, "-"))
        /\ Populated(result.prerelease) => result.prerelease = latestTag

\* a call that populates prerelease with a latestTag that is not in
\* allVersions and is lower than current
C6_Witness ==
    /\ pc = "done" /\ HasTuple(current)
    /\ Populated(result.prerelease)
    /\ \A i \in 1..Len(allVersions) : allVersions[i] # latestTag
    /\ TupleLess(TupleOf(latestTag), TupleOf(current))

\* C7: when current has no tuple the result is exactly { latest: latestTag }.
C7_UnparseableOnlyLatest ==
    (pc = "done" /\ ~HasTuple(current)) =>
        /\ result.latest = latestTag
        /\ \A F \in Tiers \cup {"prerelease"} : ~Populated(Field(result, F))

\* a call with an unparseable current, versions to scan and a latestTag that
\* carries a prerelease marker
C7_Witness ==
    /\ pc = "done" /\ ~HasTuple(current)
    /\ Len(allVersions) > 0
    /\ Includes(latestTag, "-")

\* C8: result.latest is the latestTag argument, for every input.
C8_LatestIsTag == pc = "done" => result.latest = latestTag

\* a call with latestTag equal to a parseable current and a major candidate
C8_Witness ==
    /\ pc = "done" /\ HasTuple(current) /\ latestTag = current
    /\ CandidateIdx("major") # {}

\* what the loop has kept for tier T when it ends
Kept(T) ==
    LET m == ScanVersions(allVersions, Len(allVersions), TupleOf(current)) IN
    CASE T = "patch" -> m.maxPatch
      [] T = "minor" -> m.maxMinor
      [] T = "major" -> m.maxMajor

\* C14 as stated: among the candidates with the tier's maximum tuple, the
\* loop keeps the one that comes last in allVersions.
C14_Original ==
    (pc = "done" /\ HasTuple(current)) =>
        \A T \in Tiers :
            LET M == MaxIdx(T) IN
            M # {} => Kept(T) = allVersions[CHOOSE i \in M : \A j \in M : j <= i]

\* C14 amended: among the candidates with the tier's maximum tuple, the
\* loop keeps the one that comes first in allVersions.
C14_FirstOfEqualTuplesKept ==
    (pc = "done" /\ HasTuple(current)) =>
        \A T \in Tiers :
            LET M == MaxIdx(T) IN
            M # {} => Kept(T) = allVersions[CHOOSE i \in M : \A j \in M : i <= j]

\* the patch tier's maximum tuple is held by two different strings, and the
\* result names the first
C14_Witness ==
    /\ pc = "done" /\ HasTuple(current)
    /\ \E i, j \in MaxIdx("patch") :
          /\ i < j
          /\ allVersions[i] # allVersions[j]
          /\ result.patch = allVersions[i]

(***************************************************************************)
(* Properties of getPackageInfo.                                           *)
(***************************************************************************)
HandleIds == 1..Len(handles)

\* a fetch for n has resolved successfully
Resolved(n) == \E h \in HandleIds : handles[h].name = n /\ handles[h].state = "fulfilled"

\* C3: at most one fetch per name is in flight; every caller whose call was
\* answered with a promise that is still pending holds the one promise the
\* cache has for that name, and callers of one promise observe one result.
C3_Coalescing ==
    /\ \A n \in Names : Cardinality(PendingHandles(n)) <= 1
    /\ \A c \in Callers :
          seen[c].state = "pending" =>
              /\ handles[seen[c].handle].state = "pending"
              /\ cache[seen[c].name].kind = "pending"
              /\ cache[seen[c].name].handle = seen[c].handle
    /\ \A c1, c2 \in Callers :
          (seen[c1].handle # 0 /\ seen[c1].handle = seen[c2].handle) => seen[c1] = seen[c2]

\* two callers hold the same pending promise and one fetch was started
C3_Witness ==
    /\ Len(handles) = 1
    /\ \A c \in Callers : seen[c].state = "pending" /\ seen[c].handle = 1

\* C4: once a fetch for n has resolved, the entry of n holds the value and
\* never changes, no fetch for n is started, and every call for n returns
\* that value synchronously.
C4_Persistence ==
    [][\A n \in Names :
          Resolved(n) =>
              /\ cache[n].kind = "resolved"
              /\ cache'[n] = cache[n]
              /\ \A h \in 1..Len(handles') : h > Len(handles) => handles'[h].name # n
              /\ \A c \in Callers :
                    Get(c, n) =>
                        /\ seen'[c].state = "value"
                        /\ seen'[c].value = cache[n].value
                        /\ handles' = handles]_vars

\* one caller got the value from the promise, the other synchronously later
C4_Witness ==
    \E c1, c2 \in Callers :
        /\ seen[c1].state = "fulfilled"
        /\ seen[c2].state = "value"
        /\ seen[c2].name = seen[c1].name
        /\ seen[c2].value = seen[c1].value
        /\ DOMAIN seen[c2].value # {}

\* C9: in a step where the fetch of n fails, every caller holding its
\* promise observes the rejection, no fetch is started, the entry of n is
\* absent afterwards (the next call misses and fetches again), and the
\* entries and callers of other names are untouched.
C9_FailureNotCached ==
    [][\A h \in HandleIds :
          (handles[h].state = "pending" /\ handles'[h].state = "rejected") =>
              LET n == handles[h].name IN
              /\ \A c \in Callers : seen[c].handle = h => seen'[c].state = "rejected"
              /\ \A c \in Callers : seen[c].handle # h => seen'[c] = seen[c]
              /\ Len(handles') = Len(handles)
              /\ cache'[n].kind = "none"
              /\ \A m \in Names \ {n} : cache'[m] = cache[m]]_vars

\* a name whose fetch failed, was fetched again and resolved, while a
\* caller still holds the rejection
C9_Witness ==
    \E h \in HandleIds, c \in Callers :
        /\ handles[h].state = "rejected"
        /\ cache[handles[h].name].kind = "resolved"
        /\ seen[c].handle = h /\ seen[c].state = "rejected"

\* C10 as stated: after the registry answered with a packument, the entry of
\* that name is resolved and, for every (tag, version) of its dist-tags, the
\* resolved entry of version carries tag.
C10_TagsAttached ==
    lastRaw.fetched =>
        LET n == lastRaw.name
            pkg == lastRaw.pkg
        IN  /\ cache[n].kind = "resolved"
            /\ \A k \in 1..Len(pkg.distTags) :
                  LET tag == pkg.distTags[k][1]
                      version == pkg.distTags[k][2]
                  IN  /\ version \in DOMAIN cache[n].value
                      /\ cache[n].value[version].tag = tag

\* C11: the keys of a resolved packument's versions are exactly the raw
\* versions that have a recorded publish time.
C11_KeysAreTimedVersions ==
    (lastRaw.fetched /\ cache[lastRaw.name].kind = "resolved") =>
        DOMAIN cache[lastRaw.name].value =
            {v \in DOMAIN lastRaw.pkg.versions : v \in lastRaw.pkg.time}

\* a packument with a version without publish time was resolved: that
\* version is dropped, the timed one is kept
C11_Witness ==
    /\ lastRaw.fetched
    /\ cache[lastRaw.name].kind = "resolved"
    /\ V2 \in DOMAIN lastRaw.pkg.versions /\ V2 \notin lastRaw.pkg.time
    /\ V1 \in DOMAIN cache[lastRaw.name].value

(***************************************************************************)
(* Properties of compare.                                                  *)
(***************************************************************************)
Sign(x) == IF x > 0 THEN 1 ELSE IF x < 0 THEN -1 ELSE 0

\* -1, 0, 1: the lexicographic order of two tuples
LexSign(t, u) == IF TupleLess(t, u) THEN -1 ELSE IF TupleLess(u, t) THEN 1 ELSE 0

\* the difference in the first component in which t and u differ
FirstDifference(t, u) ==
    IF t[1] # u[1] THEN t[1] - u[1]
    ELSE IF t[2] # u[2] THEN t[2] - u[2]
    ELSE t[3] - u[3]

\* C12: the sign of compare(a, b) is the lexicographic order of the tuples,
\* compare is antisymmetric and transitive and is 0 exactly for equal tuples,
\* whatever the suffixes.
C12_CompareIsTupleOrder ==
    cmpOut.done =>
        LET ta == parseSemverTuple(cmpArgs[1])
            tb == parseSemverTuple(cmpArgs[2])
            tc == parseSemverTuple(cmpArgs[3])
        IN  /\ Sign(cmpOut.ab) = LexSign(ta, tb)
            /\ Sign(cmpOut.bc) = LexSign(tb, tc)
            /\ Sign(cmpOut.ba) = -Sign(cmpOut.ab)
            /\ (cmpOut.ab > 0 /\ cmpOut.bc > 0) => cmpOut.ac > 0
            /\ (cmpOut.ab = 0 /\ cmpOut.bc = 0) => cmpOut.ac = 0
            /\ cmpOut.ab = 0 <=> ta = tb

\* a and b differ only in the suffix, and b = "9.0.0" is below c = "10.0.0"
C12_Witness ==
    /\ cmpOut.done
    /\ cmpArgs[1] # cmpArgs[2] /\ cmpOut.ab = 0
    /\ cmpArgs[2] = <<"9", ".", "0", ".", "0">>
    /\ cmpArgs[3] = <<"1", "0", ".", "0", ".", "0">>
    /\ cmpOut.bc < 0 /\ cmpOut.ac < 0

\* C13 as stated: compare returns -1, 0 or 1.
C13_Original == cmpOut.done => cmpOut.ab \in {-1, 0, 1}

\* C13 amended: compare returns the difference of the first tuple component
\* in which a and b differ, and 0 for equal tuples.
C13_CompareIsDifference ==
    cmpOut.done =>
        /\ cmpOut.ab = FirstDifference(parseSemverTuple(cmpArgs[1]),
                                       parseSemverTuple(cmpArgs[2]))
        /\ cmpOut.ba = -cmpOut.ab

\* a call that returns a value outside -1 .. 1
C13_Witness == cmpOut.done /\ cmpOut.ab > 1 /\ cmpOut.bc < -1

(***************************************************************************)
(* Properties of the loop body of the providers.                           *)
(***************************************************************************)
ItemTargets == {depOut.items[i].targetVersion : i \in 1..Len(depOut.items)}

LensTargets ==
    {depOut.lenses[i].targetVersion :
        i \in {j \in 1..Len(depOut.lenses) : depOut.lenses[j].kind = "upgrade"}}

\* C15: no item and no lens has the current semver core as its target, and a
\* dependency whose current semver core is the latest tag gets no item and
\* no upgrade lens.
C15_NoOpFiltered ==
    depOut.done =>
        /\ depIn.parsed.semver \notin ItemTargets \cup LensTargets
        /\ (depOut.classified /\ depIn.pkg.latest = depIn.parsed.semver) =>
               ItemTargets \cup LensTargets = {}

\* the latest tag is the current version while the registry knows later
\* stable versions, and the lens provider offers nothing
C15_Witness ==
    /\ depOut.done /\ depOut.by = "lens" /\ depOut.classified
    /\ depIn.pkg.latest = depIn.parsed.semver
    /\ depOut.options.latest = depIn.parsed.semver
    /\ Ver("1", "1", "0", <<>>) \in Range(depIn.pkg.versions)
    /\ depOut.lenses = <<>>

\* C16: the lookup and the classifier run only for a dependency that parses
\* with a supported protocol, and the classifier only on a resolved lookup.
C16_IgnoredNotLookedUp ==
    depOut.done =>
        /\ depOut.lookedUp =>
              /\ depIn.parsed # NullSpecifier
              /\ isSupportedProtocol(depIn.parsed.protocol)
        /\ depOut.classified => (depOut.lookedUp /\ depIn.pkg.kind = "value")
        /\ depIn.pkg.kind = "pending" => (~depOut.classified /\ depOut.items = <<>>)

\* a dependency with the workspace protocol has been skipped
C16_Witness ==
    /\ depOut.done
    /\ depIn.parsed # NullSpecifier
    /\ depIn.parsed.protocol = "workspace"
    /\ depIn.pkg.kind = "value" /\ Truthy(depIn.pkg.latest)
    /\ ~depOut.lookedUp /\ ~depOut.classified

\* C20: in the gutter provider the first item of a dependency that has items
\* is the latest one, and the classifier never populates a tier or the
\* prerelease field when latest is the current semver core.
C20_FirstItemIsLatest ==
    (depOut.done /\ depOut.by = "gutter") =>
        /\ depOut.items # <<>> => depOut.items[1].type = "latest"
        /\ (depOut.classified /\ depOut.options.latest = depIn.parsed.semver) =>
              /\ depOut.options.patch = Undefined
              /\ depOut.options.minor = Undefined
              /\ depOut.options.major = Undefined
              /\ depOut.options.prerelease = Undefined

\* the gutter provider offers latest first and a tier after it
C20_Witness ==
    /\ depOut.done /\ depOut.by = "gutter"
    /\ Len(depOut.items) >= 2
    /\ depOut.items[1].type = "latest"
    /\ depOut.items[2].type = "major"

(***************************************************************************)
(* Properties of the refreshes of the providers.                           *)
(***************************************************************************)
\* C17: once a lookup for which a pending lens was returned has settled, an
\* onDidChangeCodeLenses event follows.
C17_LensNotified == lensNote.owed ~> ~lensNote.owed

\* the event has fired after a lookup with a pending lens was rejected
C17_Witness ==
    /\ lensNote.fired /\ ~lensNote.owed
    /\ lensNote.outcome = "rejected"
    /\ ~refreshTimer

\* C18: once a lookup that _update for editor e saw pending has settled, a
\* further _update for e runs.
C18_RefreshAfterSettle == \A e \in Editors : owed[e] ~> ~owed[e]

\* no timer is armed and no fetch is in flight
Quiescent ==
    /\ updateTimer = ""
    /\ \A n \in Names : cache[n].kind # "pending"

\* C19: after one call of update and without editor events, the rounds of
\* _update and the fetches come to an end.
C19_Quiescence == <>[]Quiescent

====
